---- MODULE Spec2Model ----
(***************************************************************************)
(* A model of the paper-analysis assistant: the chat-completion client     *)
(* (src/api.py), the PDF text extractor (src/pdf_processor.py) and the     *)
(* upload handling of the Streamlit shell (src/main.py).                   *)
(*                                                                         *)
(* Python strings are TLA+ strings: Len, \o and SubSeq act on them         *)
(* character by character, so a truncation at 15,000 characters is         *)
(* computed on texts of that length.                                       *)
(***************************************************************************)
EXTENDS Integers, Sequences, FiniteSets, TLC

VARIABLES
    env_key,      \* os.environ's DEEPSEEK_API_KEY: <<>> when unset, else <<value>>
    api,          \* the DeepSeekAPI instance of the current run
    pc,           \* where the current run stands
    last,         \* the outcome of the last pipeline operation
    nposts,       \* how many times requests.post has been called so far
    has_magic,    \* pdf_processor.has_magic, fixed when the module is imported
    openHandles,  \* fitz documents that are open
    pdf,          \* the outcome of the last PDFProcessor call
    fs,           \* the temporary files that exist
    pdf_text,     \* st.session_state.pdf_text: <<>> for None, else <<text>>
    ntmp,         \* how many temporary names tempfile has handed out
    ui            \* the outcome of the last step of main()

vars == <<env_key, api, pc, last, nposts, has_magic, openHandles, pdf, fs,
          pdf_text, ntmp, ui>>

apiVars == <<env_key, api, pc, last, nposts>>
pdfVars == <<has_magic, openHandles, pdf>>
mainVars == <<fs, pdf_text, ntmp, ui>>

----------------------------------------------------------------------------
(* Bounds of the model *)

\* texts are as long as 0..TextSlack, or within TextSlack of max_length
TextSlack == 1
\* requests.post is called at most this often in one behaviour
MaxPosts == 2
\* a model reply is made of at most this many segments
MaxSegs == 4
\* a document has at most this many pages
MaxPages == 3
\* at most this many uploads in one behaviour
MaxUploads == 2

----------------------------------------------------------------------------
(* Strings *)

RECURSIVE Rep(_, _)
\* Python's c * n
Rep(c, n) ==
    IF n = 0 THEN ""
    ELSE IF n % 2 = 0 THEN LET h == Rep(c, n \div 2) IN h \o h
    ELSE c \o Rep(c, n - 1)

\* Python's s[i:j] for 0 <= i, j
Slice(s, i, j) == SubSeq(s, i + 1, IF j > Len(s) THEN Len(s) ELSE j)

\* Python's s[i], 0-based, as a one-character string
CharAt(s, i) == SubSeq(s, i + 1, i + 1)

\* Python's s.startswith(p, i)
StartsWithAt(s, p, i) ==
    /\ i + Len(p) <= Len(s)
    /\ SubSeq(s, i + 1, i + Len(p)) = p

\* Python's s.endswith(p)
EndsWith(s, p) ==
    /\ Len(p) <= Len(s)
    /\ SubSeq(s, Len(s) - Len(p) + 1, Len(s)) = p

----------------------------------------------------------------------------
(* src/api.py: DeepSeekAPI *)

max_length == 15000
\* "...[" + eight CJK characters + "]": 13 characters. The module is ASCII, so
\* each CJK character of a Python literal is written as one ASCII character.
TruncationMarker == "...[too-long]"

\* a text of exactly max_length characters is cut as well
TruncateKeyPointsOffByOne(text) ==
    IF Len(text) >= max_length
    THEN Slice(text, 0, max_length) \o TruncationMarker
    ELSE text

\* the cut text is sent without the marker
TruncateAnswerNoMarker(text) ==
    IF Len(text) > max_length
    THEN Slice(text, 0, max_length)
    ELSE text

\* the three copies of the truncation step, one per operation:
\* lines 64-66, 83-85 and 102-104
TruncateAnalyze(text) ==
    IF Len(text) > max_length
    THEN Slice(text, 0, max_length) \o TruncationMarker
    ELSE text

TruncateAnswer(text) ==
    IF Len(text) > max_length
    THEN Slice(text, 0, max_length) \o TruncationMarker
    ELSE text

TruncateKeyPoints(text) ==
    IF Len(text) > max_length
    THEN Slice(text, 0, max_length) \o TruncationMarker
    ELSE text

AnalysisTypes == {"summary", "methodology", "results", "conclusion"}

prompts(analysis_type) ==
    CASE analysis_type = "summary" -> "Summarise the following paper:"
      [] analysis_type = "methodology" -> "Analyse the methods of the following paper:"
      [] analysis_type = "results" -> "Analyse the results of the following paper:"
      [] analysis_type = "conclusion" -> "Summarise the conclusions of the following paper:"

\* prompts.get(analysis_type, prompts["summary"])
PromptFor(analysis_type) ==
    IF analysis_type \in AnalysisTypes
    THEN prompts(analysis_type)
    ELSE prompts("summary")

\* the literals of the messages, in English
AnalyzeSystem == "You analyse academic papers. Answer in Chinese."
AnswerSystem == "You answer questions about academic papers. Answer in Chinese."
KeyPointsSystem == "You extract structured information from papers. Return valid JSON."
KeyPointsPrompt ==
    "\n            Extract the key information of the following paper as JSON.\n            Return valid JSON and no other text.\n            "
AnswerPrefix == "Paper:\n\n"
AnswerInfix == "\n\nQuestion:"

\* the f-strings of the user messages
AnalyzeUser(prompt, text) == prompt \o "\n\n" \o text
AnswerUser(text, question) == AnswerPrefix \o text \o AnswerInfix \o question
KeyPointsUser(text) == KeyPointsPrompt \o "\n\n" \o text

Messages(system, user) ==
    << [role |-> "system", content |-> system],
       [role |-> "user", content |-> user] >>


----------------------------------------------------------------------------
(* The model endpoint's answers.  net: whether the HTTP exchange completed;
   status: the HTTP status; shape: "chat" for a JSON body holding
   choices[0].message.content, "other" for another JSON body, "text" for a
   body that is not JSON; content: the reply of a "chat" body. *)

Response(net, status, shape, content) ==
    [net |-> net, status |-> status, shape |-> shape, content |-> content]

NetworkDown == Response("down", 0, "text", "")

\* requests' Response.raise_for_status: HTTPError for 4xx and 5xx only
raise_for_status(resp) ==
    IF resp.status >= 400 /\ resp.status < 600 THEN "HTTPError" ELSE ""

\* a second attempt after a failure
CallApiRetrying(client, messages, temperature, resp) ==
    LET post == [url |-> client.api_url,
                 headers |-> client.headers,
                 json |-> [model |-> client.model, messages |-> messages,
                           temperature |-> temperature]]
        raised == IF resp.net # "ok" THEN "ConnectionError"
                  ELSE IF raise_for_status(resp) # "" THEN raise_for_status(resp)
                  ELSE IF resp.shape = "text" THEN "requests.JSONDecodeError"
                  ELSE ""
    IN  [posts |-> IF raised = "" THEN <<post>> ELSE <<post, post>>,
         raised |-> raised]

\* DeepSeekAPI._call_api: one requests.post, then raise_for_status, then
\* response.json(); a RequestException is logged and raised again.
CallApi(client, messages, temperature, resp) ==
    LET post == [url |-> client.api_url,
                 headers |-> client.headers,
                 json |-> [model |-> client.model, messages |-> messages,
                           temperature |-> temperature]]
        raised == IF resp.net # "ok" THEN "ConnectionError"
                  ELSE IF raise_for_status(resp) # "" THEN raise_for_status(resp)
                  ELSE IF resp.shape = "text" THEN "requests.JSONDecodeError"
                  ELSE ""
    IN  [posts |-> <<post>>, raised |-> raised]

\* response["choices"][0]["message"]["content"]
ContentOf(resp) ==
    IF resp.shape = "chat"
    THEN [raised |-> "", content |-> resp.content]
    ELSE [raised |-> "KeyError", content |-> ""]

----------------------------------------------------------------------------
(* What an operation hands back: nothing (it raised), a string, or a dict.
   A dict is its keys, with the values of the keys the shell reads; value is
   the dict's compact JSON text when it was parsed from the reply. *)

NoRet ==
    [kind |-> "none", value |-> "", keys |-> {}, error |-> FALSE,
     message |-> "", raw_response |-> ""]

StrRet(s) == [NoRet EXCEPT !.kind = "str", !.value = s]

ParsedRet(doc) == [NoRet EXCEPT !.kind = "dict", !.value = doc]

\* {"error": True, "message": message, "raw_response": content}
ErrorRetRaw(message, content) ==
    [NoRet EXCEPT !.kind = "dict", !.keys = {"error", "message", "raw_response"},
                  !.error = TRUE, !.message = message, !.raw_response = content]

\* {"error": True, "message": message}
ErrorRet(message) ==
    [NoRet EXCEPT !.kind = "dict", !.keys = {"error", "message"},
                  !.error = TRUE, !.message = message]

\* str(e) of an exception, by its class
StrOf(raised) == "<" \o raised \o ">"

JsonErrorMessage == "The API reply is not valid JSON"


----------------------------------------------------------------------------
(* The JSON recovery of extract_key_points: Python's re and json, computed
   on the characters of the reply.  Positions are 0-based. *)

\* the regular expression class \s, as far as replies spell it
IsSpace(c) == c \in {" ", "\n", "\t", "\r"}

Min(S) == CHOOSE x \in S : \A y \in S : x <= y
Max(S) == CHOOSE x \in S : \A y \in S : x >= y

\* A string of the module cannot hold a backquote: the apostrophe stands for
\* it, one character for one character.
BackQuote == "'"
Fence == BackQuote \o BackQuote \o BackQuote
FenceJson == Fence \o "json"

\* where a greedy \s* started at i stops
SkipSpaces(s, i) ==
    Min({j \in i..Len(s) : j = Len(s) \/ ~IsSpace(CharAt(s, j))})

\* A match of ```json\s*([\s\S]*?)\s*``` that starts at i: the first \s* takes
\* every blank, the lazy group grows to the first place from which blanks and
\* then ``` follow.
FenceMatchAt(s, i) ==
    IF ~StartsWithAt(s, FenceJson, i)
    THEN [found |-> FALSE, group |-> ""]
    ELSE LET from == SkipSpaces(s, i + Len(FenceJson))
             ends == {e \in from..Len(s) : StartsWithAt(s, Fence, SkipSpaces(s, e))}
         IN  IF ends = {}
             THEN [found |-> FALSE, group |-> ""]
             ELSE [found |-> TRUE, group |-> Slice(s, from, Min(ends))]

\* the group grows to the last closing fence instead of the first
re_search_fence_greedy(content) ==
    LET starts == {i \in 0..Len(content) : FenceMatchAt(content, i).found}
    IN  IF starts = {}
        THEN [found |-> FALSE, group |-> ""]
        ELSE LET from == SkipSpaces(content, Min(starts) + Len(FenceJson))
                 ends == {e \in from..Len(content) :
                            StartsWithAt(content, Fence, SkipSpaces(content, e))}
             IN  [found |-> TRUE, group |-> Slice(content, from, Max(ends))]

\* re.search(r'```json\s*([\s\S]*?)\s*```', content): the leftmost match
re_search_fence(content) ==
    LET starts == {i \in 0..Len(content) : FenceMatchAt(content, i).found}
    IN  IF starts = {}
        THEN [found |-> FALSE, group |-> ""]
        ELSE FenceMatchAt(content, Min(starts))

\* re.sub(r'^[^{]*', '', s): the longest prefix without "{" goes
sub_leading(json_str) ==
    LET stop == Min({j \in 0..Len(json_str) :
                       j = Len(json_str) \/ CharAt(json_str, j) = "{"})
    IN  Slice(json_str, stop, Len(json_str))

\* the text is cut after the first "}" instead of the last
sub_trailing_first(json_str) ==
    LET closing == {j \in 0..(Len(json_str) - 1) : CharAt(json_str, j) = "}"}
    IN  IF closing = {} THEN "" ELSE Slice(json_str, 0, Min(closing) + 1)

\* re.sub(r'[^}]*$', '', s): the leftmost match starts right after the last
\* "}" (at 0 without one) and runs to the end; the empty match at the end
\* that follows it is replaced by nothing as well.
sub_trailing(json_str) ==
    LET closing == {j \in 0..(Len(json_str) - 1) : CharAt(json_str, j) = "}"}
    IN  IF closing = {} THEN "" ELSE Slice(json_str, 0, Max(closing) + 1)

\* lines 131-139: the text handed to json.loads
RecoverCandidate(content) ==
    LET json_match == re_search_fence(content)
        json_str == IF json_match.found THEN json_match.group ELSE content
    IN  sub_trailing(sub_leading(json_str))


----------------------------------------------------------------------------
(* json.loads, for the values a reply of the model can spell: objects and
   strings (no reply holds a digit, a bracket or the letters of true, false
   and null; a reply holds no backslash).  A parsed object is a sequence of
   members [k, v] in insertion order, v the compact JSON text of the value. *)

IsJsonSpace(c) == c \in {" ", "\n", "\t", "\r"}

SkipJsonSpaces(s, i) ==
    Min({j \in i..Len(s) : j = Len(s) \/ ~IsJsonSpace(CharAt(s, j))})

ParseFail == [ok |-> FALSE, end |-> 0, text |-> ""]

\* dict[k] = v: a key that is there keeps its place and takes the new value
RECURSIVE Put(_, _, _)
Put(members, k, v) ==
    IF members = <<>> THEN << [k |-> k, v |-> v] >>
    ELSE IF Head(members).k = k THEN << [k |-> k, v |-> v] >> \o Tail(members)
    ELSE << Head(members) >> \o Put(Tail(members), k, v)

RECURSIVE DumpMembers(_)
DumpMembers(members) ==
    IF members = <<>> THEN ""
    ELSE "\"" \o Head(members).k \o "\":" \o Head(members).v
         \o (IF Len(members) > 1 THEN "," ELSE "")
         \o DumpMembers(Tail(members))

\* json.dumps(obj, separators=(",", ":")) of a parsed object
Dump(members) == "{" \o DumpMembers(members) \o "}"

\* scanstring: i is the place after the opening quote
ParseString(s, i) ==
    LET quotes == {j \in i..(Len(s) - 1) : CharAt(s, j) = "\""}
    IN  IF quotes = {} THEN [ok |-> FALSE, end |-> 0, val |-> ""]
        ELSE LET close == Min(quotes)
                 val == Slice(s, i, close)
             IN  IF \E j \in i..(close - 1) : CharAt(s, j) \in {"\n", "\t", "\r"}
                 THEN [ok |-> FALSE, end |-> 0, val |-> ""]
                 ELSE [ok |-> TRUE, end |-> close + 1, val |-> val]

RECURSIVE ParseValue(_, _), ParseMembers(_, _, _)

\* scan_once: the value that starts at i
ParseValue(s, i) ==
    IF i >= Len(s) THEN ParseFail
    ELSE IF CharAt(s, i) = "\""
    THEN LET str == ParseString(s, i + 1)
         IN  IF str.ok
             THEN [ok |-> TRUE, end |-> str.end, text |-> "\"" \o str.val \o "\""]
             ELSE ParseFail
    ELSE IF CharAt(s, i) = "{"
    THEN LET at == SkipJsonSpaces(s, i + 1)
         IN  IF at < Len(s) /\ CharAt(s, at) = "}"
             THEN [ok |-> TRUE, end |-> at + 1, text |-> Dump(<<>>)]
             ELSE ParseMembers(s, at, <<>>)
    ELSE ParseFail

\* JSONObject's loop: a member starts at i, members are those read so far
ParseMembers(s, i, members) ==
    IF i >= Len(s) \/ CharAt(s, i) # "\"" THEN ParseFail
    ELSE LET key == ParseString(s, i + 1)
         IN  IF ~key.ok THEN ParseFail
             ELSE LET colon == SkipJsonSpaces(s, key.end)
                  IN  IF colon >= Len(s) \/ CharAt(s, colon) # ":" THEN ParseFail
                      ELSE LET value == ParseValue(s, SkipJsonSpaces(s, colon + 1))
                           IN  IF ~value.ok THEN ParseFail
                               ELSE LET after == SkipJsonSpaces(s, value.end)
                                        now == Put(members, key.val, value.text)
                                    IN  IF after >= Len(s) THEN ParseFail
                                        ELSE IF CharAt(s, after) = "}"
                                        THEN [ok |-> TRUE, end |-> after + 1,
                                              text |-> Dump(now)]
                                        ELSE IF CharAt(s, after) = ","
                                        THEN ParseMembers(
                                               s, SkipJsonSpaces(s, after + 1), now)
                                        ELSE ParseFail

\* json.loads(s): a value between blanks and nothing else, or JSONDecodeError
json_loads(s) ==
    LET value == ParseValue(s, SkipJsonSpaces(s, 0))
    IN  IF value.ok /\ SkipJsonSpaces(s, value.end) = Len(s)
        THEN [raised |-> "", text |-> value.text]
        ELSE [raised |-> "JSONDecodeError", text |-> ""]


----------------------------------------------------------------------------
(* DeepSeekAPI: construction and the three operations.  An operation's
   outcome is a record: the POSTs it issued, the exception it raised ("" for
   none), the exception it caught and did not raise again, what it returned,
   and the text it handed to json.loads. *)

DefaultUrl == "https://api.deepseek.com/v1/chat/completions"

NoApi ==
    [constructed |-> FALSE, api_key |-> "", api_url |-> "", model |-> "",
     headers |-> [ContentType |-> "", Authorization |-> ""]]

NoLast ==
    [op |-> "", text |-> "", arg |-> "", resp |-> NetworkDown, posts |-> <<>>,
     raised |-> "", caught |-> "", ret |-> NoRet, json_str |-> ""]

\* the key is not looked at
DeepSeekAPI_init_unchecked(key) ==
    LET api_key == IF key = <<>> THEN "None" ELSE key[1]
    IN  [raised |-> "",
         obj |-> [constructed |-> TRUE, api_key |-> api_key,
                  api_url |-> DefaultUrl, model |-> "deepseek-chat",
                  headers |-> [ContentType |-> "application/json",
                               Authorization |-> "Bearer " \o api_key]]]

\* DeepSeekAPI.__init__; key is os.getenv("DEEPSEEK_API_KEY")
DeepSeekAPI_init(key) ==
    IF key = <<>> \/ key[1] = ""
    THEN [raised |-> "ValueError", obj |-> NoApi]
    ELSE [raised |-> "",
          obj |-> [constructed |-> TRUE, api_key |-> key[1],
                   api_url |-> DefaultUrl, model |-> "deepseek-chat",
                   headers |-> [ContentType |-> "application/json",
                                Authorization |-> "Bearer " \o key[1]]]]

\* DeepSeekAPI.analyze_paper
analyze_paper(client, text, analysis_type, resp) ==
    LET user == AnalyzeUser(PromptFor(analysis_type), TruncateAnalyze(text))
        call == CallApi(client, Messages(AnalyzeSystem, user), "0.7", resp)
        got == ContentOf(resp)
        raised == IF call.raised # "" THEN call.raised ELSE got.raised
    IN  [op |-> "analyze_paper", text |-> text, arg |-> analysis_type,
         resp |-> resp, posts |-> call.posts, raised |-> raised, caught |-> "",
         ret |-> IF raised = "" THEN StrRet(got.content) ELSE NoRet,
         json_str |-> ""]

\* DeepSeekAPI.answer_question
answer_question(client, text, question, resp) ==
    LET user == AnswerUser(TruncateAnswer(text), question)
        call == CallApi(client, Messages(AnswerSystem, user), "0.7", resp)
        got == ContentOf(resp)
        raised == IF call.raised # "" THEN call.raised ELSE got.raised
    IN  [op |-> "answer_question", text |-> text, arg |-> question,
         resp |-> resp, posts |-> call.posts, raised |-> raised, caught |-> "",
         ret |-> IF raised = "" THEN StrRet(got.content) ELSE NoRet,
         json_str |-> ""]

\* the error object carries the text handed to json.loads, not the reply
key_points_recovery_cut(content) ==
    LET json_str == RecoverCandidate(content)
        result == json_loads(json_str)
    IN  IF result.raised = ""
        THEN [caught |-> "", ret |-> ParsedRet(result.text), json_str |-> json_str]
        ELSE [caught |-> result.raised,
              ret |-> ErrorRetRaw(JsonErrorMessage, json_str),
              json_str |-> json_str]

\* lines 128-149: the inner try of extract_key_points
key_points_recovery(content) ==
    LET json_str == RecoverCandidate(content)
        result == json_loads(json_str)
    IN  IF result.raised = ""
        THEN [caught |-> "", ret |-> ParsedRet(result.text), json_str |-> json_str]
        ELSE [caught |-> result.raised,
              ret |-> ErrorRetRaw(JsonErrorMessage, content),
              json_str |-> json_str]

\* DeepSeekAPI.extract_key_points: the outer except returns, it does not raise
extract_key_points(client, text, resp) ==
    LET user == KeyPointsUser(TruncateKeyPoints(text))
        call == CallApi(client, Messages(KeyPointsSystem, user), "0.3", resp)
        got == ContentOf(resp)
        failed == IF call.raised # "" THEN call.raised ELSE got.raised
        inner == key_points_recovery(got.content)
    IN  [op |-> "extract_key_points", text |-> text, arg |-> "",
         resp |-> resp, posts |-> call.posts, raised |-> "",
         caught |-> IF failed # "" THEN failed ELSE inner.caught,
         ret |-> IF failed # "" THEN ErrorRet(StrOf(failed)) ELSE inner.ret,
         json_str |-> IF failed # "" THEN "" ELSE inner.json_str]


----------------------------------------------------------------------------
(* src/pdf_processor.py: PDFProcessor.  A file is its name, what its bytes
   are ("pdf" or "text") and, for a document, its pages; a page is its text
   and how reading it goes: "ok", "get_text_raises" (page.get_text() throws)
   or "load_raises" (the document's iterator throws when it loads the
   page).  A call's outcome counts the fitz documents it opened and closed. *)

File(name, kind, pages) == [name |-> name, kind |-> kind, pages |-> pages]

NoFile == File("", "text", <<>>)

\* magic.Magic(mime=True).from_file: decided by the bytes
magic_from_file(file) ==
    IF file.kind = "pdf" THEN "application/pdf" ELSE "text/plain"

\* mimetypes.guess_type: decided by the name
mimetypes_guess_type(name) ==
    IF EndsWith(name, ".pdf") THEN "application/pdf"
    ELSE IF EndsWith(name, ".txt") THEN "text/plain"
    ELSE "None"

\* fitz.open: a PDF opens under any of the names used here; text does not
fitz_open(file) == IF file.kind = "pdf" THEN "" ELSE "FileDataError"

NoPdf ==
    [op |-> "", file |-> NoFile, raised |-> "", ret |-> <<>>,
     opened |-> 0, closed |-> 0]

\* PDFProcessor.validate_pdf
validate_pdf(file, magic) ==
    LET base == [NoPdf EXCEPT !.op = "validate_pdf", !.file = file]
    IN  IF magic
        THEN IF magic_from_file(file) # "application/pdf"
             THEN [base EXCEPT !.raised = "ValueError"]
             ELSE [base EXCEPT !.ret = <<"True">>]
        ELSE IF mimetypes_guess_type(file.name) # "application/pdf"
             THEN IF fitz_open(file) # ""
                  THEN [base EXCEPT !.raised = "ValueError"]
                  ELSE [base EXCEPT !.ret = <<"True">>, !.opened = 1, !.closed = 1]
             ELSE [base EXCEPT !.ret = <<"True">>]

\* "\n".join(list)
RECURSIVE Join(_)
Join(list) ==
    IF list = <<>> THEN ""
    ELSE IF Len(list) = 1 THEN list[1]
    ELSE list[1] \o "\n" \o Join(Tail(list))

\* a page whose get_text() throws leaves an empty entry
RECURSIVE AppendTextsBlank(_)
AppendTextsBlank(pages) ==
    IF pages = <<>> THEN <<>>
    ELSE IF Head(pages).status = "ok"
    THEN <<Head(pages).text>> \o AppendTextsBlank(Tail(pages))
    ELSE <<"">> \o AppendTextsBlank(Tail(pages))

\* the list the page loop builds from the pages it gets to
RECURSIVE AppendTexts(_)
AppendTexts(pages) ==
    IF pages = <<>> THEN <<>>
    ELSE IF Head(pages).status = "ok"
    THEN <<Head(pages).text>> \o AppendTexts(Tail(pages))
    ELSE AppendTexts(Tail(pages))

\* the document is closed on the successful return only
extract_text_no_finally(file, magic) ==
    LET base == [NoPdf EXCEPT !.op = "extract_text", !.file = file]
        valid == validate_pdf(file, magic)
    IN  IF valid.raised # ""
        THEN [base EXCEPT !.raised = valid.raised,
                          !.opened = valid.opened, !.closed = valid.closed]
        ELSE IF fitz_open(file) # ""
        THEN [base EXCEPT !.raised = fitz_open(file),
                          !.opened = valid.opened, !.closed = valid.closed]
        ELSE IF \E i \in 1..Len(file.pages) : file.pages[i].status = "load_raises"
        THEN [base EXCEPT !.raised = "RuntimeError",
                          !.opened = valid.opened + 1,
                          !.closed = valid.closed]
        ELSE [base EXCEPT !.ret = <<Join(AppendTexts(file.pages))>>,
                          !.opened = valid.opened + 1,
                          !.closed = valid.closed + 1]

\* PDFProcessor.extract_text: validate, open, read the pages in order; an
\* exception of the loop itself leaves through except and finally.
extract_text(file, magic) ==
    LET base == [NoPdf EXCEPT !.op = "extract_text", !.file = file]
        valid == validate_pdf(file, magic)
    IN  IF valid.raised # ""
        THEN [base EXCEPT !.raised = valid.raised,
                          !.opened = valid.opened, !.closed = valid.closed]
        ELSE IF fitz_open(file) # ""
        THEN [base EXCEPT !.raised = fitz_open(file),
                          !.opened = valid.opened, !.closed = valid.closed]
        ELSE IF \E i \in 1..Len(file.pages) : file.pages[i].status = "load_raises"
        THEN [base EXCEPT !.raised = "RuntimeError",
                          !.opened = valid.opened + 1,
                          !.closed = valid.closed + 1]
        ELSE [base EXCEPT !.ret = <<Join(AppendTexts(file.pages))>>,
                          !.opened = valid.opened + 1,
                          !.closed = valid.closed + 1]

\* tempfile.gettempdir() and PDFProcessor().temp_dir
SystemTempDir == "/tmp"
temp_dir == "/tmp/pdf_processor_temp"

\* PDFProcessor.cleanup: os.listdir(self.temp_dir), os.unlink of each file
cleanup(files) == {f \in files : f.dir # temp_dir}


----------------------------------------------------------------------------
(* src/main.py: the upload branch of main().  A temporary file is its
   directory, its name and the bytes written to it. *)

TempFile(dir, name, file) ==
    [dir |-> dir, name |-> name, kind |-> file.kind, pages |-> file.pages]

NoUi ==
    [step |-> "idle", saved |-> "", created |-> <<>>, processed |-> FALSE]

\* save_uploaded_file: NamedTemporaryFile(delete=False, suffix='.pdf') in the
\* system's temporary directory; how is "ok", "write_fails" (the file is
\* there, the path is not returned) or "create_fails".
save_uploaded_file(uploaded, n, how) ==
    LET tmp == TempFile(SystemTempDir, "tmp" \o ToString(n) \o ".pdf", uploaded)
    IN  [created |-> IF how = "create_fails" THEN <<>> ELSE <<tmp>>,
         path |-> IF how = "ok" THEN <<tmp>> ELSE <<>>]

\* a failed extraction clears the session's text
assign_pdf_text_cleared(current, out) ==
    IF out.raised = "" THEN out.ret ELSE <<>>

\* process_pdf, line 74: the assignment to st.session_state.pdf_text happens
\* once extract_text has returned; an exception leaves the session as it is
assign_pdf_text(current, out) ==
    IF out.raised = "" THEN out.ret ELSE current

\* process_pdf: cleanup(), then extract_text into the session
process_pdf(tmp, files, magic) ==
    LET out == extract_text(File(tmp.name, tmp.kind, tmp.pages), magic)
    IN  [files |-> cleanup(files), out |-> out, ok |-> out.raised = ""]

----------------------------------------------------------------------------
(* The inputs *)

Keys == {"sk-1", "sk-2"}

TextLengths ==
    (0..TextSlack) \cup ((max_length - TextSlack)..(max_length + TextSlack))

\* texts of every length, ending in "a" or in "z"
Texts ==
    {Rep("a", n) : n \in TextLengths}
        \cup {Rep("a", n - 1) \o "z" : n \in TextLengths \ {0}}

Questions == {"Why?"}

Contents == {"A fine paper.", "{\"t\":\"T\"}"}

Responses ==
    {NetworkDown}
        \cup {Response("ok", st, "chat", c) : st \in {200, 304, 404, 500}, c \in Contents}
        \cup {Response("ok", st, sh, "") :
                st \in {200, 304, 404, 500}, sh \in {"other", "text"}}

Segments == {FenceJson, Fence, "{", "}", "\"t\":\"T\"", "\n", "x"}

RECURSIVE SegmentStrings(_)
SegmentStrings(n) ==
    IF n = 0 THEN {""}
    ELSE {s \o g : s \in SegmentStrings(n - 1), g \in Segments}

SpecReply ==
    "Here you go:\n" \o FenceJson \o "\n{\"title\":\"T\"}\n" \o Fence \o "\nThanks"

TwoBlocks ==
    FenceJson \o "{\"t\":\"T\"}" \o Fence \o " or " \o FenceJson \o "{}" \o Fence

Replies ==
    UNION {SegmentStrings(n) : n \in 0..MaxSegs} \cup {SpecReply, TwoBlocks}

ShortText == "A short paper."

PageTexts == {"", "A", "B"}

Pages ==
    [text : PageTexts, status : {"ok"}]
        \cup [text : {""}, status : {"get_text_raises", "load_raises"}]

RECURSIVE PageLists(_)
PageLists(n) ==
    IF n = 0 THEN {<<>>}
    ELSE {Append(l, pg) : l \in PageLists(n - 1), pg \in Pages}

Documents == UNION {PageLists(n) : n \in 0..MaxPages}

Files ==
    {File(name, "pdf", d) : name \in {"paper.pdf", "paper.dat"}, d \in Documents}
        \cup {File(name, "text", <<>>) : name \in {"notes.pdf", "notes.txt"}}

Uploads ==
    {File("", "text", <<>>),
     File("", "pdf", <<[text |-> "A", status |-> "ok"]>>),
     File("", "pdf", <<[text |-> "B", status |-> "ok"],
                       [text |-> "", status |-> "get_text_raises"]>>),
     File("", "pdf", <<[text |-> "", status |-> "load_raises"]>>)}

StrayFiles == {TempFile(temp_dir, "old.txt", NoFile)}

\* what the API answers to an analysis asked from the page: no network, a
\* reply, a server error
PageResponses ==
    {NetworkDown,
     Response("ok", 200, "chat", "A fine paper."),
     Response("ok", 500, "chat", "A fine paper.")}

----------------------------------------------------------------------------
(* The pipeline client, run after run as main() does: the environment may be
   configured, the client is constructed, one operation is called. *)

\* save_api_config and load_dotenv(override=True), for a key that is not empty
SaveConfig(k) ==
    /\ pc = "start"
    /\ env_key # <<k>>
    /\ env_key' = <<k>>
    /\ UNCHANGED <<api, pc, last, nposts, pdfVars, mainVars>>

\* initialize_api: DeepSeekAPI(), None on ValueError
Construct ==
    /\ pc = "start"
    /\ LET made == DeepSeekAPI_init(env_key)
       IN  /\ api' = made.obj
           /\ pc' = IF made.raised = "" THEN "ready" ELSE "no_api"
           /\ last' = [NoLast EXCEPT !.op = "__init__", !.raised = made.raised]
    /\ UNCHANGED <<env_key, nposts, pdfVars, mainVars>>

Returned(outcome) ==
    /\ last' = outcome
    /\ nposts' = nposts + Len(outcome.posts)
    /\ pc' = "returned"
    /\ UNCHANGED <<env_key, api, pdfVars, mainVars>>

AnalyzePaper(text, analysis_type, resp) ==
    /\ pc = "ready"
    /\ nposts < MaxPosts
    /\ Returned(analyze_paper(api, text, analysis_type, resp))

AnswerQuestion(text, question, resp) ==
    /\ pc = "ready"
    /\ nposts < MaxPosts
    /\ Returned(answer_question(api, text, question, resp))

ExtractKeyPoints(text, resp) ==
    /\ pc = "ready"
    /\ nposts < MaxPosts
    /\ Returned(extract_key_points(api, text, resp))

\* the script runs again from the top
Rerun ==
    /\ pc \in {"returned", "no_api"}
    /\ pc' = "start"
    /\ api' = NoApi
    /\ last' = NoLast
    /\ UNCHANGED <<env_key, nposts, pdfVars, mainVars>>

InitPdf ==
    /\ openHandles = 0
    /\ pdf = NoPdf

InitMain ==
    /\ pdf_text = <<>>
    /\ ntmp = 0
    /\ ui = NoUi

InitApi ==
    /\ api = NoApi
    /\ pc = "start"
    /\ last = NoLast
    /\ nposts = 0

Init ==
    /\ env_key \in {<<>>, <<"">>} \cup {<<k>> : k \in Keys}
    /\ InitApi
    /\ has_magic = TRUE
    /\ fs = {}
    /\ InitPdf
    /\ InitMain

Next ==
    \/ \E k \in Keys : SaveConfig(k)
    \/ Construct
    \/ \E t \in Texts, r \in Responses : ExtractKeyPoints(t, r)
    \/ \E t \in Texts, a \in AnalysisTypes \cup {"abstract"}, r \in Responses :
         AnalyzePaper(t, a, r)
    \/ \E t \in Texts, q \in Questions, r \in Responses : AnswerQuestion(t, q, r)
    \/ Rerun

Spec == Init /\ [][Next]_vars

(* The JSON recovery, reply by reply *)

InitJson ==
    /\ env_key = <<"sk-1">>
    /\ InitApi
    /\ has_magic = TRUE
    /\ fs = {}
    /\ InitPdf
    /\ InitMain

NextJson ==
    \/ Construct
    \/ \E c \in Replies : ExtractKeyPoints(ShortText, Response("ok", 200, "chat", c))
    \/ Rerun

SpecJson == InitJson /\ [][NextJson]_vars

----------------------------------------------------------------------------
(* The PDF processor, call by call *)

PdfReturned(outcome) ==
    /\ pdf' = outcome
    /\ openHandles' = openHandles + outcome.opened - outcome.closed
    /\ UNCHANGED <<has_magic, fs, apiVars, pdf_text, ntmp, ui>>

ValidatePdf(file) ==
    /\ pdf.op = ""
    /\ PdfReturned(validate_pdf(file, has_magic))

ExtractText(file) ==
    /\ pdf.op = ""
    /\ PdfReturned(extract_text(file, has_magic))

\* the caller has the outcome; the next call may come
PdfNext ==
    /\ pdf.op # ""
    /\ pdf' = NoPdf
    /\ UNCHANGED <<has_magic, openHandles, apiVars, mainVars>>

InitProcessor ==
    /\ env_key = <<"sk-1">>
    /\ InitApi
    /\ has_magic \in BOOLEAN
    /\ fs = {}
    /\ InitPdf
    /\ InitMain

NextPdf ==
    \/ \E f \in Files : ValidatePdf(f)
    \/ \E f \in Files : ExtractText(f)
    \/ PdfNext

SpecPdf == InitProcessor /\ [][NextPdf]_vars

----------------------------------------------------------------------------
(* main(), run after run: cleanup() at the top, then the upload branch *)

\* lines 194-200
MainStart ==
    /\ ui.step = "idle"
    /\ fs' = cleanup(fs)
    /\ ui' = [NoUi EXCEPT !.step = "started"]
    /\ UNCHANGED <<pdf_text, ntmp, apiVars, pdfVars>>

\* lines 254-269, with a file in the uploader
Upload(uploaded, how) ==
    /\ ui.step = "started"
    /\ DeepSeekAPI_init(env_key).raised = ""
    /\ ntmp < MaxUploads
    /\ LET saved == save_uploaded_file(uploaded, ntmp + 1, how)
           there == fs \cup {saved.created[i] : i \in 1..Len(saved.created)}
       IN  /\ ntmp' = ntmp + 1
           /\ IF saved.path = <<>>
              THEN /\ fs' = there
                   /\ ui' = [step |-> "idle", saved |-> how,
                             created |-> saved.created, processed |-> FALSE]
                   /\ UNCHANGED <<pdf_text, pdf, openHandles>>
              ELSE LET done == process_pdf(saved.path[1], there, has_magic)
                   IN  /\ fs' = IF done.ok
                                THEN done.files \ {saved.path[1]}
                                ELSE done.files
                       /\ pdf_text' = assign_pdf_text(pdf_text, done.out)
                       /\ pdf' = done.out
                       /\ openHandles' =
                            openHandles + done.out.opened - done.out.closed
                       /\ ui' = [step |-> "idle", saved |-> how,
                                 created |-> saved.created, processed |-> done.ok]
    /\ UNCHANGED <<has_magic, apiVars>>

\* the run ends without an upload: no key, another tab, no file
MainReturn ==
    /\ ui.step = "started"
    /\ ui' = NoUi
    /\ UNCHANGED <<fs, pdf_text, ntmp, apiVars, pdfVars>>

\* lines 271-272 and display_paper_analysis: with a text in the session,
\* the button sends st.session_state.pdf_text to analyze_paper; an exception
\* is shown, not raised
DisplayPaperAnalysis(analysis_type, resp) ==
    /\ ui.step = "started"
    /\ DeepSeekAPI_init(env_key).raised = ""
    /\ pdf_text # <<>> /\ pdf_text[1] # ""
    /\ nposts < MaxPosts
    /\ LET client == DeepSeekAPI_init(env_key).obj
           outcome == analyze_paper(client, pdf_text[1], analysis_type, resp)
       IN  /\ last' = outcome
           /\ nposts' = nposts + Len(outcome.posts)
    /\ ui' = NoUi
    /\ UNCHANGED <<env_key, api, pc, fs, pdf_text, ntmp, pdfVars>>

InitShell ==
    /\ env_key \in {<<>>, <<"sk-1">>}
    /\ InitApi
    /\ has_magic \in BOOLEAN
    /\ fs \in SUBSET StrayFiles
    /\ InitPdf
    /\ InitMain

NextMain ==
    \/ \E k \in Keys : SaveConfig(k)
    \/ MainStart
    \/ \E u \in Uploads, how \in {"ok", "write_fails", "create_fails"} : Upload(u, how)
    \/ MainReturn
    \/ \E t \in AnalysisTypes, r \in PageResponses : DisplayPaperAnalysis(t, r)

SpecMain == InitShell /\ [][NextMain]_vars

----------------------------------------------------------------------------
(* Properties of the pipeline client *)

PipelineOps == {"analyze_paper", "answer_question", "extract_key_points"}

\* what the user message of an operation puts before and after the text
UserPrefix(l) ==
    IF l.op = "analyze_paper" THEN PromptFor(l.arg) \o "\n\n"
    ELSE IF l.op = "answer_question" THEN AnswerPrefix
    ELSE KeyPointsPrompt \o "\n\n"

UserSuffix(l) ==
    IF l.op = "answer_question" THEN AnswerInfix \o l.arg ELSE ""

\* the user message of the i-th POST of an operation
UserMessage(l, i) == l.posts[i].json.messages[2].content

\* the document text inside that message
EmbeddedText(l, i) ==
    SubSeq(UserMessage(l, i), Len(UserPrefix(l)) + 1,
           Len(UserMessage(l, i)) - Len(UserSuffix(l)))

Framed(l, i) ==
    /\ StartsWithAt(UserMessage(l, i), UserPrefix(l), 0)
    /\ EndsWith(UserMessage(l, i), UserSuffix(l))

\* C1: in each of analyze_paper, answer_question and extract_key_points the
\* text sent is the input itself when the input has at most 15,000
\* characters, and otherwise the input's first 15,000 characters followed by
\* the truncation marker, 15,000 + marker length characters in all.
C1_TruncationStep ==
    last.op \in PipelineOps =>
        \A i \in 1..Len(last.posts) :
            /\ Framed(last, i)
            /\ Len(last.text) <= max_length => EmbeddedText(last, i) = last.text
            /\ Len(last.text) > max_length =>
                 /\ EmbeddedText(last, i)
                      = SubSeq(last.text, 1, max_length) \o TruncationMarker
                 /\ Len(EmbeddedText(last, i)) = max_length + Len(TruncationMarker)

C1_Witness ==
    /\ last.op = "extract_key_points"
    /\ Len(last.text) = max_length + 1
    /\ Len(last.posts) = 1
    /\ Len(EmbeddedText(last, 1)) = max_length + Len(TruncationMarker)

\* C2 as stated: the text embedded in the user message of every model call
\* has at most 15,000 characters, and ends with the truncation marker
\* whenever the original text was longer than that.
C2_EmbeddedWithinCeiling ==
    last.op \in PipelineOps =>
        \A i \in 1..Len(last.posts) :
            /\ Len(EmbeddedText(last, i)) <= max_length
            /\ Len(last.text) > max_length =>
                 EndsWith(EmbeddedText(last, i), TruncationMarker)

\* C2 as amended: the text embedded in the user message of every model call
\* has at most 15,000 + marker length characters, and ends with the
\* truncation marker whenever the original text was longer than 15,000.
C2_EmbeddedWithinCeilingPlusMarker ==
    last.op \in PipelineOps =>
        \A i \in 1..Len(last.posts) :
            /\ Len(EmbeddedText(last, i)) <= max_length + Len(TruncationMarker)
            /\ Len(last.text) > max_length =>
                 EndsWith(EmbeddedText(last, i), TruncationMarker)

C2_Witness ==
    /\ last.op = "answer_question"
    /\ Len(last.text) > max_length
    /\ Len(last.posts) = 1
    /\ Len(EmbeddedText(last, 1)) > max_length
    /\ EndsWith(EmbeddedText(last, 1), TruncationMarker)

\* the RequestExceptions of a failed exchange and of a rejected status
TransportErrors == {"ConnectionError", "HTTPError"}
\* with the RequestException of a body that is not JSON
RequestExceptions == TransportErrors \cup {"requests.JSONDecodeError"}

\* the exchange failed or the status is not 2xx
NotSuccessful(resp) == resp.net # "ok" \/ resp.status < 200 \/ resp.status > 299

\* the exchange failed or the status is one raise_for_status rejects
Rejected(resp) == resp.net # "ok" \/ (resp.status >= 400 /\ resp.status <= 599)

KeyConfigured == env_key # <<>> /\ env_key[1] # ""

C8_State ==
    /\ pc = "no_api" =>
         /\ ~KeyConfigured
         /\ last.op = "__init__" /\ last.raised = "ValueError"
         /\ last.posts = <<>>
         /\ ~api.constructed
    /\ pc = "ready" => KeyConfigured /\ api.constructed
    /\ api.constructed => api.api_key # ""
    /\ \A i \in 1..Len(last.posts) :
         /\ api.constructed
         /\ last.posts[i].headers.Authorization = "Bearer " \o api.api_key

\* C8: DeepSeekAPI() without a key (unset or empty) raises the authentication
\* error and no request has been issued by then; every request an operation
\* issues carries "Bearer " and a key that is not empty.
C8_NoKeyNoRequest ==
    /\ []C8_State
    /\ [][/\ (pc = "start" /\ ~KeyConfigured /\ env_key' = env_key)
              => (pc' = "no_api" /\ nposts' = nposts)
          /\ nposts' # nposts => (pc = "ready" /\ api.api_key # "")]_vars

C8_Witness ==
    /\ pc = "no_api"
    /\ env_key = <<"">>
    /\ last.raised = "ValueError"
    /\ nposts = 0

----------------------------------------------------------------------------
(* Properties of the JSON recovery *)

\* the reply of a call that got one
Replied(l) ==
    /\ l.op = "extract_key_points"
    /\ ~Rejected(l.resp)
    /\ l.resp.shape = "chat"

HasChar(s, c) == \E j \in 0..(Len(s) - 1) : CharAt(s, j) = c

RECURSIVE Find(_, _, _)
Find(s, p, from) ==
    IF from + Len(p) > Len(s) THEN Len(s) + 1
    ELSE IF SubSeq(s, from + 1, from + Len(p)) = p THEN from
    ELSE Find(s, p, from + 1)

\* the last place before upto where p starts in s, -1 for none
RECURSIVE FindLast(_, _, _)
FindLast(s, p, upto) ==
    IF upto < 0 THEN -1
    ELSE IF upto + Len(p) <= Len(s) /\ SubSeq(s, upto + 1, upto + Len(p)) = p
    THEN upto
    ELSE FindLast(s, p, upto - 1)

\* the contents of the first fenced block tagged json, else the reply
StatedBlock(reply) ==
    LET open == Find(reply, FenceJson, 0)
        close == Find(reply, Fence, open + Len(FenceJson))
    IN  IF open > Len(reply) \/ close > Len(reply)
        THEN reply
        ELSE SubSeq(reply, open + Len(FenceJson) + 1, close)

\* without what stands before the first "{" and after the last "}"
StatedTrim(s) ==
    LET first == Find(s, "{", 0)
        from == SubSeq(s, first + 1, Len(s))
        lastClose == FindLast(from, "}", Len(from) - 1)
    IN  SubSeq(from, 1, lastClose + 1)

\* C5: the text handed to json.loads is the contents of the first fenced
\* block tagged json (the whole reply without one), without the characters
\* before its first "{" and after its last "}"; the reply of leading prose,
\* a fenced {"title":"T"} and trailing prose yields {"title":"T"}.
C5_RecoverySteps ==
    Replied(last) =>
        /\ last.json_str = StatedTrim(StatedBlock(last.resp.content))
        /\ last.resp.content = SpecReply =>
             /\ last.json_str = "{\"title\":\"T\"}"
             /\ last.ret = ParsedRet("{\"title\":\"T\"}")

C5_Witness ==
    /\ Replied(last)
    /\ last.resp.content = SpecReply
    /\ last.json_str = "{\"title\":\"T\"}"
    /\ last.ret.kind = "dict" /\ ~last.ret.error

----------------------------------------------------------------------------
(* Properties of the PDF processor *)

\* the newline-joined texts of the pages from i on whose get_text() works
RECURSIVE JoinedFrom(_, _)
JoinedFrom(pages, i) ==
    IF i > Len(pages) THEN ""
    ELSE IF pages[i].status # "ok" THEN JoinedFrom(pages, i + 1)
    ELSE IF \E j \in (i + 1)..Len(pages) : pages[j].status = "ok"
    THEN pages[i].text \o "\n" \o JoinedFrom(pages, i + 1)
    ELSE pages[i].text

\* C6: for a document that validates and whose pages all load, whatever
\* pages throw in get_text(), extract_text raises nothing and returns the
\* newline-joined texts of the other pages in page order, with no entry for
\* a page that threw.
C6_FailingPagesSkipped ==
    (/\ pdf.op = "extract_text"
     /\ pdf.file.kind = "pdf"
     /\ \A i \in 1..Len(pdf.file.pages) : pdf.file.pages[i].status # "load_raises")
        => /\ pdf.raised = ""
           /\ pdf.ret = <<JoinedFrom(pdf.file.pages, 1)>>

C6_Witness ==
    /\ pdf.op = "extract_text"
    /\ Len(pdf.file.pages) = 3
    /\ pdf.file.pages[1].status = "ok" /\ pdf.file.pages[1].text = "A"
    /\ pdf.file.pages[2].status = "get_text_raises"
    /\ pdf.file.pages[3].status = "ok" /\ pdf.file.pages[3].text = "B"
    /\ pdf.ret = <<"A\nB">>

\* C7 as stated: for a file whose bytes are not a PDF, whatever its name and
\* whichever validator is active, validate_pdf and extract_text raise the
\* invalid-document error (ValueError) and validate_pdf does not return True.
C7_NonPdfRejected ==
    (pdf.op \in {"validate_pdf", "extract_text"} /\ pdf.file.kind # "pdf")
        => /\ pdf.raised = "ValueError"
           /\ pdf.ret = <<>>

\* C10: validate_pdf and extract_text close every document they open, on a
\* return and on an error alike: as many are open after a call as before.
C10_HandlesReleased ==
    /\ openHandles = 0
    /\ pdf.op # "" => pdf.opened = pdf.closed

C10_Witness ==
    /\ pdf.op = "extract_text"
    /\ pdf.raised = "RuntimeError"
    /\ pdf.opened = 1
    /\ openHandles = 0

----------------------------------------------------------------------------
(* Properties of the upload branch *)

\* the temporary files of uploads that are still there
UploadFiles == {f \in fs : f.dir = SystemTempDir}

\* C9 as stated: the temporary file of an upload is gone once the upload is
\* processed, and once cleanup() has run no temporary file of an earlier
\* upload, left behind by a failure, is there any more.
C9_UploadFilesRemoved ==
    /\ (ui.step = "idle" /\ ui.processed) =>
           \A i \in 1..Len(ui.created) : ui.created[i] \notin fs
    /\ ui.step = "started" => UploadFiles = {}

\* what the upload of the last run was: the way it was saved and the bytes
\* written to its temporary file
UploadSaved(u) == u.saved = "ok" /\ Len(u.created) = 1

UploadFails(u) ==
    \/ ~UploadSaved(u)
    \/ u.created[1].kind # "pdf"
    \/ \E i \in 1..Len(u.created[1].pages) :
            u.created[1].pages[i].status = "load_raises"

\* C11: over any sequence of runs, (1) the session's text changes only in a
\* run that uploads a document which is saved, validates and is extracted,
\* (2) after such an upload the text is exactly the newline-joined text of
\* that document's pages, (3) an upload that fails in saving, validation or
\* extraction leaves the text as it was, and (4) an analysis call made later
\* is given the text that is then in the session, which it leaves alone.
C11_TextFrame ==
    [][/\ pdf_text' # pdf_text => (ntmp' # ntmp /\ ~UploadFails(ui'))
       /\ (ntmp' # ntmp /\ ~UploadFails(ui')) =>
              /\ ui'.processed
              /\ pdf_text' = <<JoinedFrom(ui'.created[1].pages, 1)>>
       /\ (ntmp' # ntmp /\ UploadFails(ui')) =>
              /\ ~ui'.processed
              /\ pdf_text' = pdf_text
       /\ last' # last =>
              /\ last'.op = "analyze_paper"
              /\ last'.text = pdf_text[1]
              /\ pdf_text' = pdf_text]_vars

\* a second upload, of a file that is no PDF, has failed and the text of the
\* first document is still the session's text
C11_Witness ==
    /\ ntmp = 2
    /\ ui.step = "idle"
    /\ UploadSaved(ui)
    /\ ui.created[1].kind = "text"
    /\ ~ui.processed
    /\ pdf_text = <<"A">>

====
